---- MODULE Spec2Model ----
(***************************************************************************)
(* The prompt ledger of apps/backend (models/prompt.py,                    *)
(* repositories/prompt_repository.py, services/prompt_service.py,          *)
(* db/connection.py) and the generation endpoint that updates it           *)
(* (api/generate.py), as a state machine.                                  *)
(*                                                                         *)
(* Every SQL statement is one atomic step; a handler that issues several   *)
(* statements (the existence check, then the UPDATE or the INSERT) is      *)
(* several steps, so two requests interleave between them exactly as two   *)
(* workers of the server do.                                               *)
(***************************************************************************)
EXTENDS Integers, Sequences, FiniteSets, TLC

VARIABLES
    rows,      \* the prompts table: id -> row
    nextId,    \* next value of the SERIAL sequence behind prompts.id
    now,       \* CURRENT_TIMESTAMP, a logical clock
    started,   \* number of requests begun so far
    pc,        \* pc[p]: where request slot p stands in its handler
    req,       \* req[p]: the arguments of the request slot p is serving
    res,       \* res[p]: what the handler returned
    exc,       \* exc[p]: the exception the handler raised or swallowed
    prev,      \* history: the request slot 1 served before the current one
    tally,     \* history: generations finished against the seeded row
    nIn,       \* normalization: the prompt text given
    nOut,      \* normalization: normalize_prompt(nIn)
    nTwice,    \* normalization: normalize_prompt(nOut)
    nPc        \* normalization: how many times normalize_prompt was applied

ledgerVars == <<rows, nextId, now, started, pc, req, res, exc>>
normVars   == <<nIn, nOut, nTwice, nPc>>
vars       == <<rows, nextId, now, started, pc, req, res, exc, prev, tally,
                nIn, nOut, nTwice, nPc>>

(***************************************************************************)
(* Bounds of the model.                                                    *)
(***************************************************************************)
MaxLen      == 3    \* longest prompt text given to normalize_prompt
MaxRequests == 2    \* requests begun in one behaviour
MaxTime     == 1    \* ticks of the clock
MaxVendorCalls == 3 \* vendor calls of one adapter operation

Procs == {1, 2}     \* request slots (two concurrent workers)

NULL == "NULL"

(***************************************************************************)
(* Prompt.normalize_prompt and Prompt.hash_prompt.                         *)
(*                                                                         *)
(* A text is a sequence of characters. The characters stand for the        *)
(* code points whose treatment by NFKC, lower(), strip() and \s differs:   *)
(*   "b" U+0062, "B" U+0042, "j" U+006A, "J" U+004A,                       *)
(*   "sp" U+0020, "tab" U+0009, "nbsp" U+00A0 (NFKC: U+0020),              *)
(*   "caron" U+030C COMBINING CARON,                                       *)
(*   "jcaron" U+01F0 (canonically j + caron; Unicode has no precomposed    *)
(*   capital, so J + caron is already in NFKC form).                       *)
(***************************************************************************)
Chars == {"b", "B", "j", "J", "sp", "tab", "nbsp", "caron", "jcaron"}

IsSpace(c) == c \in {"sp", "tab", "nbsp"}

\* Compatibility mapping of one code point (the K of NFKC).
CompatChar(c) == IF c = "nbsp" THEN "sp" ELSE c

\* Canonical composition: a starter followed by a combining mark it composes with.
RECURSIVE Compose(_)
Compose(s) ==
    IF Len(s) < 2 THEN s
    ELSE IF s[1] = "j" /\ s[2] = "caron"
         THEN <<"jcaron">> \o Compose(SubSeq(s, 3, Len(s)))
         ELSE <<s[1]>> \o Compose(Tail(s))

\* Canonical decomposition of one code point.
DecomposeChar(c) == IF c = "jcaron" THEN <<"j", "caron">> ELSE <<c>>

RECURSIVE Decompose(_)
Decompose(s) ==
    IF s = <<>> THEN <<>> ELSE DecomposeChar(CompatChar(Head(s))) \o Decompose(Tail(s))

\* unicodedata.normalize("NFKC", s): compatibility decomposition, then composition.
NFKC(s) == Compose(Decompose(s))

\* str.lower(), code point by code point.
UpperLetters ==
    <<"A", "B", "C", "E", "F", "G", "H", "I", "J", "L", "M", "N", "P", "R", "S",
      "T", "U", "Y">>
LowerLetters ==
    <<"a", "b", "c", "e", "f", "g", "h", "i", "j", "l", "m", "n", "p", "r", "s",
      "t", "u", "y">>

LowerChar(c) ==
    IF \E i \in 1..Len(UpperLetters) : UpperLetters[i] = c
    THEN LowerLetters[CHOOSE i \in 1..Len(UpperLetters) : UpperLetters[i] = c]
    ELSE c

Lower(s) == [i \in 1..Len(s) |-> LowerChar(s[i])]

\* str.strip(): leading and trailing whitespace removed.
RECURSIVE LStrip(_)
LStrip(s) == IF s # <<>> /\ IsSpace(Head(s)) THEN LStrip(Tail(s)) ELSE s

RECURSIVE RStrip(_)
RStrip(s) ==
    IF s # <<>> /\ IsSpace(s[Len(s)]) THEN RStrip(SubSeq(s, 1, Len(s) - 1)) ELSE s

Strip(s) == RStrip(LStrip(s))

\* re.sub(r'\s+', ' ', s): every run of whitespace becomes one space.
RECURSIVE CollapseWhitespace(_)
CollapseWhitespace(s) ==
    IF s = <<>> THEN <<>>
    ELSE IF IsSpace(Head(s))
         THEN <<"sp">> \o CollapseWhitespace(LStrip(Tail(s)))
         ELSE <<Head(s)>> \o CollapseWhitespace(Tail(s))

normalize_prompt(prompt) ==
    IF prompt = <<>> THEN <<>>
    ELSE CollapseWhitespace(Strip(Lower(NFKC(prompt))))

\* hashlib.sha256(...).hexdigest(): the digest of a text, one digest per text.
sha256(s) == <<"sha256", s>>

\* The hash taken of the text as given, without normalize_prompt.
hash_prompt_Raw(prompt) == sha256(prompt)

hash_prompt(prompt) == sha256(normalize_prompt(prompt))

\* Prompt.__post_init__: the hash of a Prompt built from its text alone.
NoHash == <<>>
PostInitHash(prompt_text) ==
    IF prompt_text # <<>> THEN hash_prompt(prompt_text) ELSE NoHash

\* All texts of at most n characters.
RECURSIVE TextsUpTo(_)
TextsUpTo(n) ==
    IF n = 0 THEN {<<>>}
    ELSE LET shorter == TextsUpTo(n - 1)
         IN  shorter \cup {Append(t, c) : t \in shorter, c \in Chars}

(***************************************************************************)
(* The normalization specification: a text is normalized, and the result   *)
(* is normalized again.                                                    *)
(***************************************************************************)
NormIdle == /\ nOut = <<>> /\ nTwice = <<>> /\ nPc = 0

NormalizeOnce ==
    /\ nPc = 0
    /\ nOut' = normalize_prompt(nIn)
    /\ nPc' = 1
    /\ UNCHANGED <<nIn, nTwice>>
    /\ UNCHANGED <<rows, nextId, now, started, pc, req, res, exc, prev, tally>>

NormalizeAgain ==
    /\ nPc = 1
    /\ nTwice' = normalize_prompt(nOut)
    /\ nPc' = 2
    /\ UNCHANGED <<nIn, nOut>>
    /\ UNCHANGED <<rows, nextId, now, started, pc, req, res, exc, prev, tally>>


(***************************************************************************)
(* The ledger: table, inputs and results.                                  *)
(***************************************************************************)
\* Prompt texts the requests carry: two that normalize to the same text, and
\* one whose normalized form normalizes further.
LedgerTexts == {<<"B">>, <<"b", "tab">>, <<"J", "caron">>}

\* thumbnail_data / image_data arguments: absent, empty bytes, an image PIL can
\* open, bytes PIL cannot open.
Images == {"NoImage", "GoodImage", "BadImage"}

\* The image_data a direct create_prompt call is given.
CreateImages == {"EmptyBytes", "GoodImage"}

\* settings.gemini_model, the model attempt_save_prompt records.
gemini_model == "gemini-2.5-flash-image-preview"

\* The ages cleanup_old is called with, in ticks of the clock.
Days == {0, 1}

Ids == {1, 2}

NoReq ==
    [op |-> "none", text |-> <<>>, image |-> "NoImage", model |-> NULL,
     uses |-> 0, id |-> 0, days |-> 0, ctype |-> "none", absent |-> FALSE,
     tracking |-> "none", plen |-> 0, hasImage |-> FALSE, fsize |-> 0,
     called |-> FALSE, adapter |-> "none", images |-> <<>>, arg |-> "NoImage",
     calls |-> 0, reads |-> {}, status |-> 0, failure |-> "none",
     build |-> "none", file |-> [content |-> <<>>, pos |-> 0], url |-> <<>>,
     seen |-> <<>>, given |-> FALSE]

Result(kind, val) == [kind |-> kind, val |-> val]
Pending == Result("pending", 0)

\* ThumbnailGenerator.generate_thumbnail_from_bytes: Image.open fails on bytes
\* that are no image, and the failure is returned, not raised.
generate_thumbnail_from_bytes(image_data) ==
    IF image_data = "GoodImage"
    THEN [success |-> TRUE, thumbnail_data |-> "webp", mime_type |-> "image/webp",
          width |-> "256", height |-> "256"]
    ELSE [success |-> FALSE, thumbnail_data |-> NULL, mime_type |-> NULL,
          width |-> NULL, height |-> NULL]

\* bool(image_data) of `if image_data:`.
Truthy(image_data) == image_data \notin {"NoImage", "EmptyBytes"}

\* create_prompt copying the thumbnail bytes alone from the result.
create_prompt_model_DataOnly(prompt_text, model, image_data, total_uses) ==
    LET thumbnail_result == generate_thumbnail_from_bytes(image_data)
    IN  [prompt_text |-> prompt_text,
         prompt_hash |-> PostInitHash(prompt_text),
         model |-> model,
         total_uses |-> total_uses,
         total_fails |-> 0,
         thumbnail_data |-> IF Truthy(image_data) /\ thumbnail_result.success
                            THEN thumbnail_result.thumbnail_data ELSE NULL,
         thumbnail_mime |-> NULL,
         thumbnail_width |-> NULL, thumbnail_height |-> NULL]

\* The Prompt object create_prompt builds and hands to the repository.
create_prompt_model(prompt_text, model, image_data, total_uses) ==
    LET base == [prompt_text |-> prompt_text,
                 prompt_hash |-> PostInitHash(prompt_text),
                 model |-> model,
                 total_uses |-> total_uses,
                 total_fails |-> 0,
                 thumbnail_data |-> NULL, thumbnail_mime |-> NULL,
                 thumbnail_width |-> NULL, thumbnail_height |-> NULL]
        thumbnail_result == generate_thumbnail_from_bytes(image_data)
    IN  IF Truthy(image_data) /\ thumbnail_result.success
        THEN [base EXCEPT !.thumbnail_data = thumbnail_result.thumbnail_data,
                          !.thumbnail_mime = thumbnail_result.mime_type,
                          !.thumbnail_width = thumbnail_result.width,
                          !.thumbnail_height = thumbnail_result.height]
        ELSE base

\* The table without the UNIQUE constraint on prompt_hash: no INSERT fails on it.
UniqueViolation_NoConstraint(db, prompt_hash) == FALSE

\* prompt_hash TEXT NOT NULL UNIQUE: an INSERT of a hash the table holds fails.
UniqueViolation(db, prompt_hash) ==
    \E i \in DOMAIN db : db[i].prompt_hash = prompt_hash

\* INSERT INTO prompts (...) RETURNING id; the timestamps default to
\* CURRENT_TIMESTAMP.
InsertRow(db, id, prompt, ts) ==
    db @@ (id :> [prompt_text |-> prompt.prompt_text,
                  prompt_hash |-> prompt.prompt_hash,
                  total_uses |-> prompt.total_uses,
                  total_fails |-> prompt.total_fails,
                  first_used_at |-> ts,
                  last_used_at |-> ts,
                  model |-> prompt.model,
                  thumbnail_data |-> prompt.thumbnail_data,
                  thumbnail_mime |-> prompt.thumbnail_mime,
                  thumbnail_width |-> prompt.thumbnail_width,
                  thumbnail_height |-> prompt.thumbnail_height])

\* SELECT 1 FROM prompts WHERE prompt_hash = %s
exists_by_prompt(db, prompt_hash) ==
    \E i \in DOMAIN db : db[i].prompt_hash = prompt_hash

\* PromptService.exists_by_text: Prompt(prompt_text=...) and exists_by_prompt.
exists_by_text(db, prompt_text) == exists_by_prompt(db, PostInitHash(prompt_text))

\* The usage UPDATE that also resets the failure counter.
BumpUses_ResetFails(row, ts) ==
    [row EXCEPT !.total_uses = @ + 1, !.total_fails = 0, !.last_used_at = ts]

\* SET total_uses = total_uses + 1, last_used_at = CURRENT_TIMESTAMP
BumpUses(row, ts) ==
    [row EXCEPT !.total_uses = @ + 1, !.last_used_at = ts]

\* The failure UPDATE that also stamps first_used_at.
BumpFails_TouchFirstUsed(row, ts) ==
    [row EXCEPT !.total_fails = @ + 1, !.last_used_at = ts, !.first_used_at = ts]

\* SET total_fails = total_fails + 1, last_used_at = CURRENT_TIMESTAMP
BumpFails(row, ts) ==
    [row EXCEPT !.total_fails = @ + 1, !.last_used_at = ts]

\* UPDATE prompts SET total_uses ... WHERE prompt_hash = %s
UpdateByHash(db, prompt_hash, ts) ==
    [i \in DOMAIN db |->
        IF db[i].prompt_hash = prompt_hash THEN BumpUses(db[i], ts) ELSE db[i]]

\* The usage UPDATE without its WHERE clause.
IncrementUsageRows_NoWhere(db, prompt_id, ts) ==
    [i \in DOMAIN db |-> BumpUses(db[i], ts)]

\* UPDATE prompts SET total_uses ... WHERE id = %s
IncrementUsageRows(db, prompt_id, ts) ==
    [i \in DOMAIN db |-> IF i = prompt_id THEN BumpUses(db[i], ts) ELSE db[i]]

\* UPDATE prompts SET total_fails ... WHERE id = %s
IncrementFailuresByIdRows(db, prompt_id, ts) ==
    [i \in DOMAIN db |-> IF i = prompt_id THEN BumpFails(db[i], ts) ELSE db[i]]

\* UPDATE prompts SET total_fails ... WHERE prompt_hash = %s
IncrementFailuresRows(db, prompt_hash, ts) ==
    [i \in DOMAIN db |->
        IF db[i].prompt_hash = prompt_hash THEN BumpFails(db[i], ts) ELSE db[i]]

\* cursor.rowcount of the UPDATE ... WHERE prompt_hash = %s
RowcountByHash(db, prompt_hash) ==
    Cardinality({i \in DOMAIN db : db[i].prompt_hash = prompt_hash})

\* cursor.rowcount of the UPDATE / DELETE ... WHERE id = %s
RowcountById(db, prompt_id) == IF prompt_id \in DOMAIN db THEN 1 ELSE 0

\* DELETE FROM prompts WHERE id = %s
DeleteRows(db, prompt_id) == [i \in DOMAIN db \ {prompt_id} |-> db[i]]

\* The DELETE with `<=` for `<`.
CleanupMatches_Inclusive(db, days, ts) ==
    {i \in DOMAIN db : db[i].thumbnail_data = NULL /\ db[i].last_used_at <= ts - days}

\* WHERE thumbnail_data IS NULL
\*   AND last_used_at < CURRENT_TIMESTAMP - (days || ' days')::INTERVAL
CleanupMatches(db, days, ts) ==
    {i \in DOMAIN db : db[i].thumbnail_data = NULL /\ db[i].last_used_at < ts - days}

CleanupRows(db, days, ts) ==
    [i \in DOMAIN db \ CleanupMatches(db, days, ts) |-> db[i]]

\* attempt_save_prompt without its try/except: the exception reaches the caller.
AttemptSaveOnException_Propagates == "raised"

\* except Exception as db_error: ... return None
AttemptSaveOnException == "null"

\* except Exception as usage_error: logger.warning(...); the response follows.
GenerateOnTrackingException == "image"

\* What the handler of `op` makes of an exception raised under it.
OnException(op) ==
    CASE op = "attempt_save_prompt" -> AttemptSaveOnException
      [] op = "generate_image"      -> GenerateOnTrackingException
      [] OTHER                      -> "raised"


(***************************************************************************)
(* Requests. Begin takes a free slot; each later step is one statement of  *)
(* the handler. A statement may fail with a storage error (psycopg2.Error  *)
(* raised by get_connection or by execute).                                *)
(***************************************************************************)
Begin(p, r, at) ==
    /\ pc[p] \in {"idle", "done"}
    /\ started < MaxRequests
    /\ started' = started + 1
    /\ req' = [req EXCEPT ![p] = r]
    /\ pc' = [pc EXCEPT ![p] = at]
    /\ res' = [res EXCEPT ![p] = Pending]
    /\ exc' = [exc EXCEPT ![p] = "none"]
    /\ UNCHANGED <<rows, nextId, now, tally, nIn, nOut, nTwice, nPc>>

\* A step of a handler leaves the history and the normalization variables alone.
Quiet == UNCHANGED <<prev, tally, nIn, nOut, nTwice, nPc>>

\* The handler returns.
Return(p, result) ==
    /\ pc' = [pc EXCEPT ![p] = "done"]
    /\ res' = [res EXCEPT ![p] = result]
    /\ UNCHANGED <<started, req>>

\* The handler ends on an exception of the given kind.
Raise(p, kind) ==
    /\ Return(p, Result(OnException(req[p].op), 0))
    /\ exc' = [exc EXCEPT ![p] = kind]

\* What a handler returns for the row it saved or updated.
Saved(op, id) == IF op = "generate_image" THEN Result("image", id) ELSE Result("response", id)

\* attempt_save_prompt passing total_uses=0 to create_prompt.
AttemptSaveRequest_ZeroUses(text, image) ==
    [NoReq EXCEPT !.op = "attempt_save_prompt", !.text = text, !.image = image,
                  !.model = gemini_model, !.uses = 0]

\* PromptService.attempt_save_prompt(prompt_text, thumbnail_data)
AttemptSaveRequest(text, image) ==
    [NoReq EXCEPT !.op = "attempt_save_prompt", !.text = text, !.image = image,
                  !.model = gemini_model, !.uses = 1]

StartAttemptSave(p, text, image) ==
    /\ Begin(p, AttemptSaveRequest(text, image), "save_exists")
    /\ UNCHANGED prev

\* attempt_save_prompt: `if self.exists_by_text(prompt_text)`
SaveExists(p, fault) ==
    /\ pc[p] = "save_exists"
    /\ Quiet
    /\ UNCHANGED <<rows, nextId, now>>
    /\ IF fault
       THEN Raise(p, "StorageError")
       ELSE /\ IF exists_by_text(rows, req[p].text)
               THEN /\ pc' = [pc EXCEPT ![p] = "upd_exists"]
                    /\ req' = req
               ELSE /\ pc' = [pc EXCEPT ![p] = "create"]
                    /\ req' = [req EXCEPT ![p].absent = TRUE]
            /\ UNCHANGED <<started, res, exc>>

\* PromptService.update_prompt(prompt_text, model)
StartUpdatePrompt(p, text) ==
    /\ Begin(p, [NoReq EXCEPT !.op = "update_prompt", !.text = text,
                              !.model = gemini_model],
             "upd_exists")
    /\ UNCHANGED prev

\* update_prompt: `if not prompt_repository.exists_by_prompt(prompt): raise ValueError`
UpdExists(p, fault) ==
    /\ pc[p] = "upd_exists"
    /\ Quiet
    /\ UNCHANGED <<rows, nextId, now>>
    /\ IF fault
       THEN Raise(p, "StorageError")
       ELSE IF ~exists_by_prompt(rows, PostInitHash(req[p].text))
            THEN Raise(p, "ValueError")
            ELSE /\ pc' = [pc EXCEPT ![p] = "upd_write"]
                 /\ UNCHANGED <<started, req, res, exc>>

\* update_prompt: prompt_repository.update(prompt), then PromptResponse(...).
\* With rowcount 0 the repository rolls back and returns the Prompt it was given,
\* whose id is None: PromptResponse(id=None, ...) fails validation (id: int).
UpdWrite(p, fault) ==
    LET h == PostInitHash(req[p].text)
        hit == {i \in DOMAIN rows : rows[i].prompt_hash = h}
    IN  /\ pc[p] = "upd_write"
        /\ Quiet
        /\ UNCHANGED <<nextId, now>>
        /\ IF fault
           THEN Raise(p, "StorageError") /\ UNCHANGED rows
           ELSE IF RowcountByHash(rows, h) > 0
                THEN /\ rows' = UpdateByHash(rows, h, now)
                     /\ Return(p, Saved(req[p].op, CHOOSE i \in hit : TRUE))
                     /\ UNCHANGED exc
                ELSE Raise(p, "ValidationError") /\ UNCHANGED rows

\* PromptService.create_prompt(prompt_text, model, image_data, total_uses)
StartCreatePrompt(p, text, image, uses) ==
    /\ Begin(p, [NoReq EXCEPT !.op = "create_prompt", !.text = text,
                              !.image = image, !.model = gemini_model,
                              !.uses = uses],
             "create")
    /\ UNCHANGED prev

\* create_prompt: the thumbnail, then prompt_repository.create(prompt). The
\* sequence behind id advances also when the INSERT fails on the constraint.
CreateWrite(p, fault) ==
    LET prompt == create_prompt_model(req[p].text, req[p].model, req[p].image,
                                      req[p].uses)
    IN  /\ pc[p] = "create"
        /\ Quiet
        /\ UNCHANGED now
        /\ IF fault
           THEN Raise(p, "StorageError") /\ UNCHANGED <<rows, nextId>>
           ELSE IF UniqueViolation(rows, prompt.prompt_hash)
                THEN /\ Raise(p, "UniqueViolation")
                     /\ nextId' = nextId + 1
                     /\ UNCHANGED rows
                ELSE /\ rows' = InsertRow(rows, nextId, prompt, now)
                     /\ nextId' = nextId + 1
                     /\ Return(p, Result("response", nextId))
                     /\ UNCHANGED exc

\* The parameters create_prompt declares.
create_prompt_params == {"prompt_text", "model", "image_data", "total_uses"}

\* The keyword arguments generate_prompt_from_image calls create_prompt with.
InspireKwargs == {"prompt_text", "model", "thumbnail_data", "source"}

\* The model name the inspire handler records.
inspire_model == "gemini-2.0-flash-exp"

\* POST /inspire/generate-prompt, the upload being an image PIL can open.
StartInspire(p, text) ==
    /\ Begin(p, [NoReq EXCEPT !.op = "inspire", !.text = text,
                              !.image = "GoodImage", !.model = inspire_model],
             "inspire")
    /\ UNCHANGED prev

\* generate_prompt_from_image from the vendor call on: the generated prompt,
\* the thumbnail, then `await prompt_service.create_prompt(...)` under
\* `except Exception: prompt_id = None`. A keyword create_prompt does not
\* declare makes the call raise TypeError before anything is written. The
\* response carries prompt_id, 0 standing for None, and saved_to_database is
\* `prompt_id is not None`.
Inspire(p, success) ==
    /\ pc[p] = "inspire"
    /\ Quiet
    /\ UNCHANGED <<rows, nextId, now>>
    /\ IF ~success
       THEN Raise(p, "HTTPException")
       ELSE IF InspireKwargs \subseteq create_prompt_params
            THEN /\ pc' = [pc EXCEPT ![p] = "create"]
                 /\ UNCHANGED <<started, req, res, exc>>
            ELSE /\ Return(p, Result("inspired", 0))
                 /\ exc' = [exc EXCEPT ![p] = "TypeError"]

\* The repository's single-statement operations.
StartRepoOp(p, op, id, text, days) ==
    /\ op \in {"increment_usage_by_id", "increment_failures_by_id",
               "increment_failures", "delete", "cleanup_old"}
    /\ Begin(p, [NoReq EXCEPT !.op = op, !.id = id, !.text = text, !.days = days],
             "exec")
    /\ UNCHANGED prev

\* Returns True after a matching UPDATE, False when rowcount is 0.
Counted(p, rowcount, after) ==
    IF rowcount > 0
    THEN rows' = after /\ Return(p, Result("true", rowcount))
    ELSE rows' = rows /\ Return(p, Result("false", 0))

\* PromptRepository.increment_usage_by_id(prompt_id)
IncrementUsageById(p, fault) ==
    /\ pc[p] = "exec" /\ req[p].op = "increment_usage_by_id"
    /\ Quiet
    /\ UNCHANGED <<nextId, now>>
    /\ IF fault
       THEN Raise(p, "StorageError") /\ UNCHANGED rows
       ELSE /\ Counted(p, RowcountById(rows, req[p].id),
                       IncrementUsageRows(rows, req[p].id, now))
            /\ UNCHANGED exc

\* PromptRepository.increment_failures_by_id(prompt_id)
IncrementFailuresById(p, fault) ==
    /\ pc[p] = "exec" /\ req[p].op = "increment_failures_by_id"
    /\ Quiet
    /\ UNCHANGED <<nextId, now>>
    /\ IF fault
       THEN Raise(p, "StorageError") /\ UNCHANGED rows
       ELSE /\ Counted(p, RowcountById(rows, req[p].id),
                       IncrementFailuresByIdRows(rows, req[p].id, now))
            /\ UNCHANGED exc

\* PromptRepository.increment_failures(prompt_hash)
IncrementFailures(p, fault) ==
    /\ pc[p] = "exec" /\ req[p].op = "increment_failures"
    /\ Quiet
    /\ UNCHANGED <<nextId, now>>
    /\ IF fault
       THEN Raise(p, "StorageError") /\ UNCHANGED rows
       ELSE /\ Counted(p, RowcountByHash(rows, hash_prompt(req[p].text)),
                       IncrementFailuresRows(rows, hash_prompt(req[p].text), now))
            /\ UNCHANGED exc

\* PromptRepository.delete(prompt_id): `return cursor.rowcount > 0`
Delete(p, fault) ==
    /\ pc[p] = "exec" /\ req[p].op = "delete"
    /\ Quiet
    /\ UNCHANGED <<nextId, now>>
    /\ IF fault
       THEN Raise(p, "StorageError") /\ UNCHANGED rows
       ELSE /\ rows' = DeleteRows(rows, req[p].id)
            /\ Return(p, Result(IF RowcountById(rows, req[p].id) > 0
                                THEN "true" ELSE "false", 0))
            /\ UNCHANGED exc

\* PromptRepository.cleanup_old(days): `return cursor.rowcount`
CleanupOld(p, fault) ==
    /\ pc[p] = "exec" /\ req[p].op = "cleanup_old"
    /\ Quiet
    /\ UNCHANGED <<nextId, now>>
    /\ IF fault
       THEN Raise(p, "StorageError") /\ UNCHANGED rows
       ELSE /\ rows' = CleanupRows(rows, req[p].days, now)
            /\ Return(p, Result("count",
                                Cardinality(CleanupMatches(rows, req[p].days, now))))
            /\ UNCHANGED exc

\* Time passes.
Tick ==
    /\ now < MaxTime
    /\ now' = now + 1
    /\ UNCHANGED <<rows, nextId, started, pc, req, res, exc>>
    /\ Quiet

(***************************************************************************)
(* api/generate.py, generate_image: validation, the provider call, then    *)
(* the usage or failure tracking through prompt_service.                   *)
(***************************************************************************)
\* The methods class PromptService defines. A call of any other name on
\* prompt_service raises AttributeError.
PromptServiceMethods ==
    {"create_prompt", "update_prompt", "get_prompt", "get_prompt_with_thumbnail",
     "get_recent_prompts", "get_popular_prompts", "search_prompts", "get_thumbnail",
     "get_stats", "delete_prompt", "exists_by_text", "attempt_save_prompt",
     "cleanup_old_prompts", "_generate_thumbnail", "_prompt_to_response"}

\* The content types of an upload: none declared and none inferred from the
\* file name, an allowed one, one that is not allowed.
ContentTypes == {"none", "image/png", "text/plain"}

\* The row a generation request refers to: by prompt_id when one is given,
\* else by the hash of its prompt text (0: no row).
TargetOf(db, r) ==
    IF r.id # 0
    THEN IF r.id \in DOMAIN db THEN r.id ELSE 0
    ELSE IF exists_by_text(db, r.text)
         THEN CHOOSE i \in DOMAIN db : db[i].prompt_hash = PostInitHash(r.text)
         ELSE 0

\* `if len(prompt) > 2000`
MaxPromptChars == 2000

\* settings.max_file_size, DEFAULT_MAX_FILE_SIZE
max_file_size == 10 * 1024 * 1024

\* What is wrong with a request: nothing, a prompt of 2001 characters, no image
\* part, an image of max_file_size + 1 bytes. An empty or blank prompt is a text.
Defects == {"none", "long_prompt", "no_image", "oversized"}

\* prompt_id: Optional[int] = Form(None), the value that stands for None.
PromptIdNone == -1

\* `if prompt_id:` taken only by an id that is the id of a record.
TrackById_IfMatched(db, r) == r.id \in DOMAIN db

\* `if prompt_id:` None and 0 are both false.
TrackById(db, r) == r.id # 0

\* The arguments of generate_image. A request without the defect is at the
\* limit: the prompt has 2000 characters, the image max_file_size bytes. The
\* code reads prompt_id by its truth value alone: id is 0 for None as for 0,
\* and given tells whether the caller supplied a prompt_id.
GenerateRequest(prompt, prompt_id, ctype, defect) ==
    [NoReq EXCEPT !.op = "generate_image", !.text = prompt,
                  !.id = IF prompt_id = PromptIdNone THEN 0 ELSE prompt_id,
                  !.given = (prompt_id # PromptIdNone),
                  !.ctype = ctype,
                  !.plen = IF prompt = <<>> THEN 0
                           ELSE IF defect = "long_prompt" THEN MaxPromptChars + 1
                           ELSE MaxPromptChars,
                  !.hasImage = (defect # "no_image"),
                  !.fsize = IF defect = "oversized" THEN max_file_size + 1
                            ELSE max_file_size]

StartGenerate(p, prompt, prompt_id, ctype, defect) ==
    /\ Begin(p, GenerateRequest(prompt, prompt_id, ctype, defect), "gen_validate")
    /\ UNCHANGED prev

\* The validation without the file-size check of lines 113-122.
ValidationFailure_NoSizeCheck(r) ==
    IF r.text = <<>> \/ Strip(r.text) = <<>> THEN "Prompt cannot be empty"
    ELSE IF r.plen > 2000                    THEN "Prompt too long"
    ELSE IF ~r.hasImage                      THEN "Reference image is required"
    ELSE IF r.ctype # "none"                 THEN "Invalid file type"
    ELSE "none"

\* Lines 52-125, the checks in their order: the first that fails raises
\* HTTPException(400). Once a content type is known (declared, or inferred from
\* the file name) the `raise HTTPException(400, "Invalid file type ...")` of
\* line 107 runs: it stands after the `if`, not under it.
ValidationFailure(r) ==
    IF r.text = <<>> \/ Strip(r.text) = <<>> THEN "Prompt cannot be empty"
    ELSE IF r.plen > MaxPromptChars          THEN "Prompt too long"
    ELSE IF ~r.hasImage                      THEN "Reference image is required"
    ELSE IF r.ctype # "none"                 THEN "Invalid file type"
    ELSE IF r.fsize > max_file_size          THEN "Reference image too large"
    ELSE "none"

GenValidate(p) ==
    /\ pc[p] = "gen_validate"
    /\ Quiet
    /\ UNCHANGED <<rows, nextId, now, started, res>>
    /\ IF ValidationFailure(req[p]) # "none"
       THEN /\ pc' = [pc EXCEPT ![p] = "gen_fail"]
            /\ exc' = [exc EXCEPT ![p] = "HTTPException400"]
            /\ req' = req
       ELSE /\ pc' = [pc EXCEPT ![p] = "gen_call"]
            /\ UNCHANGED <<req, exc>>

\* Lines 127-131: prompt_to_image_service.generate_image_from_prompt returns the
\* image or raises HTTPException(500); it creates the provider and invokes it
\* (called). The tally counts the outcome when the
\* request refers to the seeded row.
GenCall(p, success) ==
    LET hit == TargetOf(rows, req[p]) = 1
    IN  /\ pc[p] = "gen_call"
        /\ UNCHANGED <<rows, nextId, now, started, res>>
        /\ UNCHANGED <<prev, nIn, nOut, nTwice, nPc>>
        /\ req' = [req EXCEPT ![p].called = TRUE]
        /\ IF success
           THEN /\ pc' = [pc EXCEPT ![p] = "gen_usage"]
                /\ exc' = exc
                /\ tally' = IF hit THEN [tally EXCEPT !.ok = @ + 1] ELSE tally
           ELSE /\ pc' = [pc EXCEPT ![p] = "gen_fail"]
                /\ exc' = [exc EXCEPT ![p] = "HTTPException500"]
                /\ tally' = IF hit THEN [tally EXCEPT !.fail = @ + 1] ELSE tally

\* Lines 133-144: usage tracking after a successful generation. Whatever it
\* raises is logged, and the response follows.
GenUsage(p, fault) ==
    /\ pc[p] = "gen_usage"
    /\ Quiet
    /\ UNCHANGED <<rows, nextId, now>>
    /\ IF TrackById(rows, req[p])
       THEN /\ "increment_usage_by_id" \notin PromptServiceMethods
            /\ Raise(p, "AttributeError")
       ELSE IF fault
            THEN Raise(p, "StorageError")
            ELSE IF exists_by_text(rows, req[p].text)
                 THEN /\ pc' = [pc EXCEPT ![p] = "upd_exists"]
                      /\ UNCHANGED <<started, req, res, exc>>
                 ELSE Return(p, Result("image", 0)) /\ UNCHANGED exc

\* The failure tracking without its try/except: the tracking's exception
\* replaces the generation error.
GenerateOnFailureTrackingException_Masks == "ledger_error"

\* except Exception: pass, then `raise e`: the request ends on the error it
\* failed with.
GenerateOnFailureTrackingException == "http_error"

\* What the failure tracking of lines 167-173 raises: the call of a method
\* PromptService does not define, or a storage error of exists_by_text
\* (`elif prompt and ...`: not called for an empty prompt).
FailureTracking(db, r, fault) ==
    IF TrackById(db, r)
    THEN IF "track_failure_by_id" \in PromptServiceMethods
         THEN "none" ELSE "AttributeError"
    ELSE IF r.text = <<>>
         THEN "none"
         ELSE IF fault
              THEN "StorageError"
              ELSE IF /\ exists_by_text(db, r.text)
                      /\ "track_failure" \notin PromptServiceMethods
                   THEN "AttributeError" ELSE "none"

\* Lines 165-175: failure tracking under `except HTTPException as e`, then
\* `raise e`. Whatever the tracking raises is dropped (`except Exception: pass`).
GenFail(p, fault) ==
    LET raised == FailureTracking(rows, req[p], fault)
        status == IF exc[p] = "HTTPException400" THEN 400 ELSE 500
    IN  /\ pc[p] = "gen_fail"
        /\ Quiet
        /\ UNCHANGED <<rows, nextId, now, exc, started>>
        /\ pc' = [pc EXCEPT ![p] = "done"]
        /\ req' = [req EXCEPT ![p].tracking = raised]
        /\ res' = [res EXCEPT ![p] =
                     Result(IF raised = "none" THEN "http_error"
                            ELSE GenerateOnFailureTrackingException, status)]

(***************************************************************************)
(* The repository's list queries: get_recent, get_popular, get_most_failed *)
(* and search. A result is the set of ids of the rows returned.            *)
(***************************************************************************)
QueryKinds == {"get_recent", "get_popular", "get_most_failed", "search"}

\* hay LIKE '%' || needle || '%'
Contains(hay, needle) ==
    \E k \in 0..(Len(hay) - Len(needle)) :
        SubSeq(hay, k + 1, k + Len(needle)) = needle

\* The WHERE clause of each query. `if model:` adds `model = %s`; search
\* compares LOWER(prompt_text) with the lowered query and has no other condition.
QueryMatches(db, kind, model, query) ==
    CASE kind \in {"get_recent", "get_popular"} ->
            {i \in DOMAIN db : /\ (model # NULL => db[i].model = model)
                               /\ db[i].thumbnail_data # NULL}
      [] kind = "get_most_failed" ->
            {i \in DOMAIN db : /\ (model # NULL => db[i].model = model)
                               /\ db[i].thumbnail_data # NULL
                               /\ db[i].total_fails > 0}
      [] kind = "search" ->
            {i \in DOMAIN db : Contains(Lower(db[i].prompt_text), Lower(query))}

\* ORDER BY: row i comes strictly before row j.
QueryBefore(db, kind, i, j) ==
    LET later == db[i].last_used_at > db[j].last_used_at
    IN  CASE kind = "get_recent" -> later
          [] kind \in {"get_popular", "search"} ->
                \/ db[i].total_uses > db[j].total_uses
                \/ db[i].total_uses = db[j].total_uses /\ later
          [] kind = "get_most_failed" ->
                \/ db[i].total_fails > db[j].total_fails
                \/ db[i].total_fails = db[j].total_fails /\ later

\* ORDER BY ... LIMIT %s: the first `limit` matching rows; rows the order does
\* not separate come in any order.
QueryResults(db, kind, model, query, limit) ==
    LET matches == QueryMatches(db, kind, model, query)
        n == IF Cardinality(matches) < limit THEN Cardinality(matches) ELSE limit
    IN  {T \in SUBSET matches :
            /\ Cardinality(T) = n
            /\ \A i \in T, j \in matches \ T : ~QueryBefore(db, kind, j, i)}

StartQuery(p, kind, model, query, limit) ==
    /\ Begin(p, [NoReq EXCEPT !.op = kind, !.model = model, !.text = query,
                              !.uses = limit], "query")
    /\ UNCHANGED prev

Query(p, fault) ==
    /\ pc[p] = "query"
    /\ Quiet
    /\ UNCHANGED <<rows, nextId, now>>
    /\ IF fault
       THEN Raise(p, "StorageError")
       ELSE /\ \E T \in QueryResults(rows, req[p].op, req[p].model, req[p].text,
                                     req[p].uses) : Return(p, Result("rows", T))
            /\ UNCHANGED exc

(***************************************************************************)
(* ai/factory.py, ImageGeneratorFactory. A provider name is the sequence   *)
(* of its characters.                                                      *)
(***************************************************************************)
gemini      == <<"g", "e", "m", "i", "n", "i">>
replicate   == <<"r", "e", "p", "l", "i", "c", "a", "t", "e">>
stability   == <<"s", "t", "a", "b", "i", "l", "i", "t", "y">>
huggingface == <<"h", "u", "g", "g", "i", "n", "g", "f", "a", "c", "e">>

\* The keys of ImageGeneratorFactory._providers, in the order of the dict.
ProviderKeys == <<gemini, replicate, stability, huggingface>>

\* _providers[name]
ProviderClass(name) ==
    CASE name = gemini      -> "GeminiImageGenerator"
      [] name = replicate   -> "ReplicateImageGenerator"
      [] name = stability   -> "StabilityImageGenerator"
      [] name = huggingface -> "HuggingFaceImageGenerator"

\* The membership test on the name as given, without lower() and strip().
Registered_AsGiven(provider) == \E i \in 1..Len(ProviderKeys) : ProviderKeys[i] = provider

\* provider_lower = provider.lower().strip(); provider_lower in cls._providers
provider_lower(provider) == Strip(Lower(provider))

Registered(provider) ==
    \E i \in 1..Len(ProviderKeys) : ProviderKeys[i] = provider_lower(provider)

\* get_available_providers(): list(cls._providers.keys())
get_available_providers == ProviderKeys

\* ", ".join(names)
RECURSIVE JoinComma(_)
JoinComma(names) ==
    IF names = <<>> THEN <<>>
    ELSE IF Len(names) = 1 THEN names[1]
    ELSE names[1] \o <<",", "sp">> \o JoinComma(Tail(names))

\* The provider names create is called with.
ProviderInputs ==
    { gemini,
      <<"G", "E", "M", "I", "N", "I">>,
      <<"sp">> \o gemini \o <<"sp">>,
      <<"tab", "G", "e", "m", "i", "n", "i", "nbsp">>,
      replicate,
      <<"S", "T", "A", "B", "I", "L", "I", "T", "Y">>,
      <<"H", "u", "g", "g", "i", "n", "g", "F", "a", "c", "e", "sp">>,
      <<"g", "e", "m", "sp", "i", "n", "i">>,
      <<"d", "a", "l", "l", "e">>,
      <<>> }

\* ImageGeneratorFactory.create(provider)
StartFactoryCreate(p, provider) ==
    /\ Begin(p, [NoReq EXCEPT !.op = "factory_create", !.text = provider], "factory")
    /\ UNCHANGED prev

\* Lines 45-60. The ValueError carries the provider as given and the joined
\* keys; a registered class is constructed, and its __init__ raises ValueError
\* when it finds no API key.
FactoryCreate(p, has_key) ==
    /\ pc[p] = "factory"
    /\ Quiet
    /\ UNCHANGED <<rows, nextId, now, started>>
    /\ pc' = [pc EXCEPT ![p] = "done"]
    /\ IF ~Registered(req[p].text)
       THEN /\ exc' = [exc EXCEPT ![p] = "UnsupportedProvider"]
            /\ res' = [res EXCEPT ![p] =
                         Result("raised", [provider |-> req[p].text,
                                           available |-> JoinComma(ProviderKeys)])]
            /\ req' = req
       ELSE IF has_key
            THEN /\ res' = [res EXCEPT ![p] =
                              Result("adapter", ProviderClass(provider_lower(req[p].text)))]
                 /\ req' = [req EXCEPT ![p].called = TRUE]
                 /\ exc' = exc
            ELSE /\ res' = [res EXCEPT ![p] = Result("raised", "API key is required")]
                 /\ req' = [req EXCEPT ![p].called = TRUE]
                 /\ exc' = [exc EXCEPT ![p] = "ValueError"]

(***************************************************************************)
(* ai/providers: the Replicate, Stability and HuggingFace adapters. One    *)
(* step is one request to the vendor, whose answer is an HTTP status.      *)
(***************************************************************************)
Adapters == {"replicate", "stability", "huggingface"}

\* The statuses the vendor answers with: success, model still loading, rate
\* limit, model not found.
VendorStatuses == {200, 503, 429, 404}

\* The names Replicate's generate_from_image_and_text tries in turn, the
\* configured model being the default one (duplicates removed).
model_names ==
    <<"black-forest-labs/flux-dev", "black-forest-labs/flux-1-dev",
      "black-forest-labs/flux-1", "stability-ai/flux-dev">>

UploadedImages == {"imgA", "imgB", "imgC"}

\* What the adapter sends to the vendor. HuggingFace reads the image and sends
\* the prompt alone ("inputs": prompt).
AdapterPayload(adapter, image, prompt) ==
    IF adapter = "huggingface"
    THEN [prompt |-> prompt, image |-> "NoImage"]
    ELSE [prompt |-> prompt, image |-> image]

\* The status of the HTTPException an adapter ends on for a vendor status other
\* than 200. Stability re-raises its HTTPException (`except HTTPException: raise`);
\* Replicate and HuggingFace catch it under `except Exception` and raise
\* HTTPException(500).
AdapterErrorStatus(adapter, status) ==
    IF adapter = "stability" THEN status ELSE 500

\* The image the delegation passes on, were it the last of the list.
DelegatedImage_Last(image_files) == image_files[Len(image_files)]

\* image_files[0]
DelegatedImage(image_files) == image_files[1]

AdapterRequest(op, adapter, image_files, image, prompt) ==
    [NoReq EXCEPT !.op = op, !.adapter = adapter, !.images = image_files,
                  !.arg = image, !.text = prompt]

\* generate_from_image_and_text(image_file, prompt)
StartSingleImage(p, adapter, image, prompt) ==
    /\ Begin(p, AdapterRequest("generate_from_image_and_text", adapter, <<image>>,
                               image, prompt), "vendor")
    /\ UNCHANGED prev

\* HuggingFaceImageGenerator.generate_from_text(prompt)
StartFromText(p, prompt) ==
    /\ Begin(p, AdapterRequest("generate_from_text", "huggingface", <<>>,
                               "NoImage", prompt), "vendor")
    /\ UNCHANGED prev

\* generate_from_multiple_images_and_text(image_files, prompt)
StartMultiImage(p, adapter, image_files, prompt) ==
    /\ Begin(p, AdapterRequest("generate_from_multiple_images_and_text", adapter,
                               image_files, "NoImage", prompt), "multi")
    /\ UNCHANGED prev

\* `if not image_files or len(image_files) == 0: raise HTTPException(400)`, else
\* `return self.generate_from_image_and_text(image_files[0], prompt)`.
MultiDelegate(p) ==
    /\ pc[p] = "multi"
    /\ Quiet
    /\ UNCHANGED <<rows, nextId, now, started>>
    /\ IF req[p].images = <<>>
       THEN /\ pc' = [pc EXCEPT ![p] = "done"]
            /\ exc' = [exc EXCEPT ![p] = "HTTPException400"]
            /\ res' = [res EXCEPT ![p] = Result("http_error", 400)]
            /\ req' = req
       ELSE /\ pc' = [pc EXCEPT ![p] = "vendor"]
            /\ req' = [req EXCEPT ![p].arg = DelegatedImage(req[p].images)]
            /\ UNCHANGED <<res, exc>>

\* The body of generate_from_image_and_text / generate_from_text: the image is
\* read, the request is posted. HuggingFace on 503 sleeps 10 s and calls itself
\* again (lines 92-97, 163-168). Replicate on an error that says 404 or "not
\* found" runs the next of model_names, and gives up after the last. Every
\* other answer ends the operation.
VendorCall(p, status) ==
    /\ pc[p] = "vendor"
    /\ req[p].calls < MaxVendorCalls
    /\ Quiet
    /\ UNCHANGED <<rows, nextId, now, started>>
    /\ req' = [req EXCEPT ![p].calls = @ + 1,
                          ![p].status = status,
                          ![p].reads = IF req[p].arg = "NoImage" THEN @
                                       ELSE @ \cup {req[p].arg}]
    /\ IF status = 200
       THEN /\ pc' = [pc EXCEPT ![p] = "done"]
            /\ res' = [res EXCEPT ![p] =
                         Result("image", AdapterPayload(req[p].adapter, req[p].arg,
                                                        req[p].text))]
            /\ exc' = exc
       ELSE IF status = 503 /\ req[p].adapter = "huggingface"
            THEN UNCHANGED <<pc, res, exc>>
            ELSE IF /\ status = 404 /\ req[p].adapter = "replicate"
                    /\ req[p].calls + 1 < Len(model_names)
            THEN UNCHANGED <<pc, res, exc>>
            ELSE /\ pc' = [pc EXCEPT ![p] = "done"]
                 /\ res' = [res EXCEPT ![p] =
                              Result("http_error",
                                     AdapterErrorStatus(req[p].adapter, status))]
                 /\ exc' = [exc EXCEPT ![p] = "HTTPException"]

(***************************************************************************)
(* The ledger specification: an empty table after _init_database, and any  *)
(* interleaving of the ledger's operations from two request slots.         *)
(***************************************************************************)
NoPrev == [text |-> <<>>, kind |-> "none"]
NoTally == [ok |-> 0, fail |-> 0, uses0 |-> 0, fails0 |-> 0]

EmptyTable == [i \in {} |-> NoReq]

\* The table after one attempt_save_prompt(<<"B">>, None) at time 0.
SeededTable ==
    InsertRow(EmptyTable, 1, create_prompt_model(<<"B">>, gemini_model, "NoImage", 1), 0)

SeedTables == {EmptyTable, SeededTable}

InitSlots ==
    /\ pc = [p \in Procs |-> "idle"]
    /\ req = [p \in Procs |-> NoReq]
    /\ res = [p \in Procs |-> Pending]
    /\ exc = [p \in Procs |-> "none"]
    /\ started = 0
    /\ now = 0

InitNormIdle == nIn = <<>> /\ NormIdle

Init ==
    /\ rows \in SeedTables
    /\ nextId = Cardinality(DOMAIN rows) + 1
    /\ InitSlots
    /\ prev = NoPrev
    /\ tally = NoTally
    /\ InitNormIdle

Next ==
    \/ \E p \in Procs, text \in LedgerTexts, image \in Images :
           StartAttemptSave(p, text, image)
    \/ \E p \in Procs, text \in LedgerTexts, image \in CreateImages, uses \in {0, 1} :
           StartCreatePrompt(p, text, image, uses)
    \/ \E p \in Procs, text \in LedgerTexts : StartUpdatePrompt(p, text)
    \/ \E p \in Procs, id \in Ids,
          op \in {"increment_usage_by_id", "increment_failures_by_id", "delete"} :
           StartRepoOp(p, op, id, <<>>, 0)
    \/ \E p \in Procs, text \in LedgerTexts :
           StartRepoOp(p, "increment_failures", 0, text, 0)
    \/ \E p \in Procs, days \in Days : StartRepoOp(p, "cleanup_old", 0, <<>>, days)
    \/ \E p \in Procs, fault \in BOOLEAN : SaveExists(p, fault)
    \/ \E p \in Procs, fault \in BOOLEAN : UpdExists(p, fault)
    \/ \E p \in Procs, fault \in BOOLEAN : UpdWrite(p, fault)
    \/ \E p \in Procs, fault \in BOOLEAN : CreateWrite(p, fault)
    \/ \E p \in Procs, fault \in BOOLEAN : IncrementUsageById(p, fault)
    \/ \E p \in Procs, fault \in BOOLEAN : IncrementFailuresById(p, fault)
    \/ \E p \in Procs, fault \in BOOLEAN : IncrementFailures(p, fault)
    \/ \E p \in Procs, fault \in BOOLEAN : Delete(p, fault)
    \/ \E p \in Procs, fault \in BOOLEAN : CleanupOld(p, fault)
    \/ Tick

Spec == Init /\ [][Next]_vars

(***************************************************************************)
(* The normalization specification.                                        *)
(***************************************************************************)
InitNorm ==
    /\ rows = EmptyTable
    /\ nextId = 1
    /\ InitSlots
    /\ prev = NoPrev
    /\ tally = NoTally
    /\ nIn \in TextsUpTo(MaxLen)
    /\ NormIdle

NextNorm ==
    \/ NormalizeOnce
    \/ NormalizeAgain

SpecNorm == InitNorm /\ [][NextNorm]_vars

(***************************************************************************)
(* The sequential specification: one caller, one attempt_save_prompt after *)
(* another, starting from the empty table.                                 *)
(***************************************************************************)
InitSeq ==
    /\ rows = EmptyTable
    /\ nextId = 1
    /\ InitSlots
    /\ prev = NoPrev
    /\ tally = NoTally
    /\ InitNormIdle

\* The next call; the call before it and its result are remembered.
StartNextSave(text, image) ==
    /\ Begin(1, AttemptSaveRequest(text, image), "save_exists")
    /\ prev' = [text |-> req[1].text, kind |-> res[1].kind]

NextSeq ==
    \/ \E text \in LedgerTexts, image \in Images : StartNextSave(text, image)
    \/ \E fault \in BOOLEAN : SaveExists(1, fault)
    \/ \E fault \in BOOLEAN : UpdExists(1, fault)
    \/ \E fault \in BOOLEAN : UpdWrite(1, fault)
    \/ \E fault \in BOOLEAN : CreateWrite(1, fault)
    \/ Tick

SpecSeq == InitSeq /\ [][NextSeq]_vars

\* len(prompt_text). The character "b2000" stands for a run of 2000 letters b.
RECURSIVE py_len(_)
py_len(s) ==
    IF s = <<>> THEN 0
    ELSE (IF Head(s) = "b2000" THEN MaxPromptChars ELSE 1) + py_len(Tail(s))

\* The texts POST /prompts/save and attempt_save_prompt accept: `prompt: str =
\* Form(...)` and `prompt_text: str` bound no length. Beside the ledger's texts,
\* the empty text and one of 2001 characters.
SaveTexts == LedgerTexts \cup {<<>>, <<"b2000", "b">>}

(***************************************************************************)
(* The inspire specification: one caller, inspire calls and explicit saves *)
(* one after another, starting from the empty table.                       *)
(***************************************************************************)
NextInspire ==
    \/ \E text \in LedgerTexts : StartInspire(1, text)
    \/ \E success \in BOOLEAN : Inspire(1, success)
    \/ \E text \in SaveTexts, image \in Images : StartAttemptSave(1, text, image)
    \/ \E fault \in BOOLEAN : SaveExists(1, fault)
    \/ \E fault \in BOOLEAN : UpdExists(1, fault)
    \/ \E fault \in BOOLEAN : UpdWrite(1, fault)
    \/ \E fault \in BOOLEAN : CreateWrite(1, fault)
    \/ Tick

SpecInspire == InitSeq /\ [][NextInspire]_vars

(***************************************************************************)
(* The generation specification: the table holds one row, and two request  *)
(* slots run generate_image against it (or against no row) concurrently.   *)
(***************************************************************************)
GenPrompts == {<<"b", "tab">>, <<"J", "caron">>}

InitGen ==
    /\ \E uses0 \in {0, 1}, fails0 \in {0, 1} :
          /\ rows = [i \in {1} |->
                        [SeededTable[1] EXCEPT !.total_uses = uses0,
                                               !.total_fails = fails0]]
          /\ tally = [ok |-> 0, fail |-> 0, uses0 |-> uses0, fails0 |-> fails0]
    /\ nextId = 2
    /\ InitSlots
    /\ prev = NoPrev
    /\ InitNormIdle

NextGen ==
    \/ \E p \in Procs, prompt \in GenPrompts, prompt_id \in {PromptIdNone, 0, 1, 2},
          ctype \in ContentTypes :
              StartGenerate(p, prompt, prompt_id, ctype, "none")
    \/ \E p \in Procs : GenValidate(p)
    \/ \E p \in Procs, success \in BOOLEAN : GenCall(p, success)
    \/ \E p \in Procs, fault \in BOOLEAN : GenUsage(p, fault)
    \/ \E p \in Procs, fault \in BOOLEAN : GenFail(p, fault)
    \/ \E p \in Procs, fault \in BOOLEAN : UpdExists(p, fault)
    \/ \E p \in Procs, fault \in BOOLEAN : UpdWrite(p, fault)
    \/ Tick

SpecGen == InitGen /\ [][NextGen]_vars

(***************************************************************************)
(* The validation specification: one caller sends generate_image requests  *)
(* of every kind, valid and invalid, one after the other.                  *)
(***************************************************************************)
ValPrompts == {<<"b", "tab">>, <<>>, <<"sp", "tab">>}

NextVal ==
    \/ \E prompt \in ValPrompts, prompt_id \in {PromptIdNone, 1}, ctype \in ContentTypes,
          defect \in Defects : StartGenerate(1, prompt, prompt_id, ctype, defect)
    \/ GenValidate(1)
    \/ \E success \in BOOLEAN : GenCall(1, success)
    \/ \E fault \in BOOLEAN : GenUsage(1, fault)
    \/ \E fault \in BOOLEAN : GenFail(1, fault)
    \/ \E fault \in BOOLEAN : UpdExists(1, fault)
    \/ \E fault \in BOOLEAN : UpdWrite(1, fault)

SpecVal == InitGen /\ [][NextVal]_vars

(***************************************************************************)
(* The factory specification: create called with names of every spelling.  *)
(***************************************************************************)
InitFactory ==
    /\ rows = EmptyTable
    /\ nextId = 1
    /\ InitSlots
    /\ prev = NoPrev
    /\ tally = NoTally
    /\ InitNormIdle

NextFactory ==
    \/ \E p \in Procs, provider \in ProviderInputs : StartFactoryCreate(p, provider)
    \/ \E p \in Procs, has_key \in BOOLEAN : FactoryCreate(p, has_key)

SpecFactory == InitFactory /\ [][NextFactory]_vars

(***************************************************************************)
(* The adapter specification: two callers use the adapters concurrently.   *)
(***************************************************************************)
AdapterPrompts == {<<"b">>, <<"j">>}

ImageLists ==
    {<<>>, <<"imgA">>, <<"imgA", "imgB", "imgC">>, <<"imgB", "imgA">>}

NextAdapter ==
    \/ \E p \in Procs, adapter \in Adapters, image \in {"imgA", "imgB"},
          prompt \in AdapterPrompts : StartSingleImage(p, adapter, image, prompt)
    \/ \E p \in Procs, adapter \in Adapters, image_files \in ImageLists,
          prompt \in AdapterPrompts : StartMultiImage(p, adapter, image_files, prompt)
    \/ \E p \in Procs, prompt \in AdapterPrompts : StartFromText(p, prompt)
    \/ \E p \in Procs : MultiDelegate(p)
    \/ \E p \in Procs, status \in VendorStatuses : VendorCall(p, status)

SpecAdapter == InitFactory /\ [][NextAdapter]_vars

(***************************************************************************)
(* The query specification: a table of two rows, one without and one with  *)
(* a thumbnail, queried while rows are created and failures are counted.   *)
(***************************************************************************)
QueryTables ==
    {[i \in {1, 2} |->
        [InsertRow(SeededTable, 2,
                   create_prompt_model(<<"J", "caron">>, gemini_model, "GoodImage", 1),
                   0)[i] EXCEPT !.total_fails = f[i]]] : f \in [{1, 2} -> {0, 1}]}

InitQuery ==
    /\ rows \in QueryTables
    /\ nextId = 3
    /\ InitSlots
    /\ prev = NoPrev
    /\ tally = NoTally
    /\ InitNormIdle

NextQuery ==
    \/ \E p \in Procs, kind \in QueryKinds, model \in {NULL, gemini_model},
          query \in {<<>>, <<"B">>, <<"j">>}, limit \in {1, 2} :
           StartQuery(p, kind, model, query, limit)
    \/ \E p \in Procs, fault \in BOOLEAN : Query(p, fault)
    \/ \E p \in Procs, image \in CreateImages :
           StartCreatePrompt(p, <<"b", "tab">>, image, 1)
    \/ \E p \in Procs, fault \in BOOLEAN : CreateWrite(p, fault)
    \/ \E p \in Procs, id \in Ids : StartRepoOp(p, "delete", id, <<>>, 0)
    \/ \E p \in Procs, fault \in BOOLEAN : Delete(p, fault)
    \/ Tick

SpecQuery == InitQuery /\ [][NextQuery]_vars

(***************************************************************************)
(* The error path of generate_image: an exception raised at the endpoint,  *)
(* or by the adapter under generate_image_from_prompt, and the message the *)
(* caller receives. A text is a sequence of phrases.                       *)
(***************************************************************************)
\* The raw error texts: response.text of the vendor, or str(e) of the
\* exception of requests, of the vendor's SDK or of the upload.
VendorErrorTexts == {<<"boom">>, <<"rate limit">>, <<"overloaded">>}

\* The exception the adapter's generate_from_image_and_text ends on.
\* HuggingFace raises HTTPException(status, "Hugging Face API error: ...")
\* inside its own try: `except Exception` catches it and picks the message by
\* what str(e) holds, which is "<status>: <detail>" where HTTPException
\* defines __str__ and empty where it does not. The Gemini generator calls
\* the SDK outside any try: the SDK's exception leaves as it is.
AdapterError(adapter, failure, status, text, build) ==
    LET Has(s, w) == \E i \in DOMAIN s : s[i] = w
        str_e == IF build = "str" THEN <<status, "Hugging Face API error:">> \o text
                 ELSE <<>>
    IN  IF adapter = "gemini"
        THEN [type |-> "ClientError", status |-> status, detail |-> text]
        ELSE IF failure = "connection"
        THEN [type |-> "HTTPException", status |-> "500",
              detail |-> <<"Failed to connect to Hugging Face:">> \o text]
        ELSE [type |-> "HTTPException", status |-> "500",
              detail |->
                 IF Has(str_e, "401") \/ Has(str_e, "authentication")
                 THEN <<"Authentication failed. Please check your API key.">>
                 ELSE IF Has(str_e, "429") \/ Has(str_e, "rate limit")
                 THEN <<"Rate limit exceeded. Please try again later.">>
                 ELSE <<"Image generation failed. Please try again later.">>]

\* generate_image_from_prompt: `except HTTPException: raise`, and any other
\* exception becomes HTTPException(500, f"Image generation failed: {str(e)}").
ServiceError(e) ==
    IF e.type = "HTTPException" THEN e
    ELSE [type |-> "HTTPException", status |-> "500",
          detail |-> <<"Image generation failed:">> \o e.detail]

\* generate_image: `except HTTPException as e: ... raise e`, and any other
\* exception becomes the sanitized HTTPException(500).
EndpointError(e) ==
    IF e.type = "HTTPException" THEN e
    ELSE [type |-> "HTTPException", status |-> "500",
          detail |-> <<"Failed to generate image. Please try again later.">>]

\* A generate_image request whose generation fails: the upload cannot be read
\* (failure "upload"), the vendor cannot be reached, or the vendor answers
\* with an error status.
StartFailingGenerate(p, adapter, failure, status, text, build) ==
    /\ Begin(p, [NoReq EXCEPT !.op = "generate_image", !.adapter = adapter,
                              !.failure = failure, !.status = status,
                              !.text = text, !.build = build,
                              !.hasImage = TRUE], "gen_error")
    /\ UNCHANGED prev

\* The exception on its way to the caller. The failure tracking of the
\* endpoint finds no record of the prompt.
FailGenerate(p) ==
    LET r == req[p]
        e == IF r.failure = "upload"
             THEN EndpointError([type |-> "OSError", status |-> "", detail |-> r.text])
             ELSE EndpointError(ServiceError(
                      AdapterError(r.adapter, r.failure, r.status, r.text, r.build)))
    IN  /\ pc[p] = "gen_error"
        /\ Quiet
        /\ UNCHANGED <<rows, nextId, now>>
        /\ Return(p, Result("http_error", [status |-> e.status, detail |-> e.detail]))
        /\ exc' = [exc EXCEPT ![p] = "HTTPException"]

\* The answers of client.models.generate_content: a candidate that holds an
\* image, a candidate without one, or no candidate, with or without
\* prompt_feedback.block_reason and its safety_ratings (categories).
GeminiResponses ==
    {[candidates |-> c, block_reason |-> NULL, safety_ratings |-> <<>>] :
        c \in {"image", "no_image", "none"}}
    \cup {[candidates |-> "none", block_reason |-> "SAFETY", safety_ratings |-> s] :
            s \in {<<>>, <<"HARM_CATEGORY_A">>, <<"HARM_CATEGORY_A", "HARM_CATEGORY_B">>}}

\* log_error_reason(response): (is_blocked, error_details). A response
\* without candidates counts as blocked whether or not it names a reason.
log_error_reason(response) ==
    IF response.candidates = "none"
    THEN IF response.block_reason # NULL
         THEN [is_blocked |-> TRUE,
               error_details |-> <<"Block reason:", response.block_reason>>
                                 \o response.safety_ratings]
         ELSE [is_blocked |-> TRUE,
               error_details |-> <<"Response has no candidates but no block reason found">>]
    ELSE [is_blocked |-> FALSE, error_details |-> <<>>]

\* The Gemini generator's generate_from_image_and_text and generate_from_text
\* on a response. generate_from_text runs under `try: ... except Exception`,
\* which catches the HTTPException raised inside it and raises
\* HTTPException(500) with a message picked by how str(e) starts.
GeminiOutcome(op, response, build) ==
    LET blocked == log_error_reason(response)
        inner == IF response.candidates = "image"
                 THEN [status |-> "200", detail |-> <<>>]
                 ELSE IF response.candidates = "none" /\ blocked.is_blocked
                 THEN [status |-> "400",
                       detail |-> <<"Image generation was blocked due to content policy violations:">>
                                  \o blocked.error_details]
                 ELSE [status |-> "500", detail |-> <<"No image data found in response">>]
    IN  IF op = "generate_from_image_and_text" \/ inner.status = "200"
        THEN inner
        ELSE [status |-> "500",
              detail |-> IF build = "str" /\ inner.status = "400"
                         THEN <<"Invalid request. Please check your input.">>
                         ELSE <<"Image generation failed. Please try again later.">>]

StartGemini(p, op, response, build) ==
    /\ Begin(p, [NoReq EXCEPT !.op = op, !.adapter = "gemini", !.build = build,
                              !.arg = response], "gemini")
    /\ UNCHANGED prev

GeminiCall(p) ==
    LET out == GeminiOutcome(req[p].op, req[p].arg, req[p].build)
    IN  /\ pc[p] = "gemini"
        /\ Quiet
        /\ UNCHANGED <<rows, nextId, now>>
        /\ IF out.status = "200"
           THEN Return(p, Result("image", out)) /\ UNCHANGED exc
           ELSE /\ Return(p, Result("http_error", out))
                /\ exc' = [exc EXCEPT ![p] = "HTTPException"]

NextError ==
    \/ \E p \in Procs, text \in VendorErrorTexts, build \in {"str", "nostr"},
          status \in {"500", "429"},
          call \in {<<"huggingface", "status">>, <<"huggingface", "connection">>,
                    <<"gemini", "sdk">>, <<"gemini", "upload">>} :
              StartFailingGenerate(p, call[1], call[2], status, text, build)
    \/ \E p \in Procs : FailGenerate(p)
    \/ \E p \in Procs, response \in GeminiResponses, build \in {"str", "nostr"},
          op \in {"generate_from_image_and_text", "generate_from_text"} :
              StartGemini(p, op, response, build)
    \/ \E p \in Procs : GeminiCall(p)

SpecError == InitFactory /\ [][NextError]_vars

(***************************************************************************)
(* generate_image_from_prompt and the upload it reads. An upload is its    *)
(* bytes and the position of its stream.                                   *)
(***************************************************************************)
\* image_file.file.read(): the bytes from the position to the end; the
\* position is then the end.
FileRead(file) ==
    [data |-> SubSeq(file.content, file.pos + 1, Len(file.content)),
     file |-> [file EXCEPT !.pos = Len(file.content)]]

\* The adapters whose generate_from_image_and_text is `async def`.
AsyncAdapters == {"replicate", "stability"}

\* generate_image_from_prompt(prompt, reference_image, provider), or the
\* adapter's generate_from_image_and_text called on its own, on an upload whose
\* stream stands at pos.
StartServiceGenerate(p, op, adapter, pos) ==
    /\ Begin(p, [NoReq EXCEPT !.op = op, !.adapter = adapter,
                              !.file = [content |-> <<"i1", "i2">>, pos |-> pos]],
             IF op = "generate_image_from_prompt" THEN "svc_reference"
             ELSE "svc_generate")
    /\ UNCHANGED prev

\* process_reference_image: read(), seek(0), and the data URL of what was read.
ProcessReferenceImage(p) ==
    LET r == FileRead(req[p].file)
    IN  /\ pc[p] = "svc_reference"
        /\ Quiet
        /\ UNCHANGED <<rows, nextId, now, started, res, exc>>
        /\ pc' = [pc EXCEPT ![p] = "svc_generate"]
        /\ req' = [req EXCEPT ![p].url = <<"data:">> \o r.data,
                              ![p].file = [r.file EXCEPT !.pos = 0]]

\* `generated_image_data, content_type = generator.generate_from_image_and_text(
\* reference_image, prompt)`, not awaited: an `async def` operation returns a
\* coroutine, and unpacking it raises TypeError, which the service turns into
\* HTTPException(500); the vendor is not called. Otherwise the operation runs:
\* read(), seek(0), the vendor's answer.
ServiceGenerate(p, success) ==
    LET r == FileRead(req[p].file)
    IN  /\ pc[p] = "svc_generate"
        /\ Quiet
        /\ UNCHANGED <<rows, nextId, now, started>>
        /\ pc' = [pc EXCEPT ![p] = "done"]
        /\ IF req[p].op = "generate_image_from_prompt" /\ req[p].adapter \in AsyncAdapters
           THEN /\ req' = [req EXCEPT ![p].status = IF success THEN 200 ELSE 500]
                /\ res' = [res EXCEPT ![p] = Result("http_error", 500)]
                /\ exc' = [exc EXCEPT ![p] = "TypeError"]
           ELSE /\ req' = [req EXCEPT ![p].status = IF success THEN 200 ELSE 500,
                                      ![p].called = TRUE,
                                      ![p].seen = r.data,
                                      ![p].file = [r.file EXCEPT !.pos = 0]]
                /\ IF success
                   THEN /\ res' = [res EXCEPT ![p] =
                                     Result("image", [image_data |-> req[p].adapter,
                                                      content_type |-> "image/png",
                                                      reference_image_url |-> req[p].url])]
                        /\ exc' = exc
                   ELSE /\ res' = [res EXCEPT ![p] = Result("http_error", 500)]
                        /\ exc' = [exc EXCEPT ![p] = "HTTPException"]

NextService ==
    \/ \E p \in Procs, adapter \in Adapters, pos \in 0..2,
          op \in {"generate_image_from_prompt", "generate_from_image_and_text"} :
              StartServiceGenerate(p, op, adapter, pos)
    \/ \E p \in Procs : ProcessReferenceImage(p)
    \/ \E p \in Procs, success \in BOOLEAN : ServiceGenerate(p, success)

SpecService == InitFactory /\ [][NextService]_vars

(***************************************************************************)
(* Properties.                                                             *)
(***************************************************************************)
Done(p, op) == pc[p] = "done" /\ req[p].op = op

\* The rows holding the normalized form of a text.
RowsOfText(text) ==
    {i \in DOMAIN rows : normalize_prompt(rows[i].prompt_text) = normalize_prompt(text)}

ThumbnailFields(row) ==
    {row.thumbnail_data, row.thumbnail_mime, row.thumbnail_width, row.thumbnail_height}

\* C1: in every reachable state of the ledger no two rows share a prompt_hash,
\* whatever the interleaving of saves, creates, updates, increments, deletes
\* and cleanups.
C1_UniqueHash ==
    \A i, j \in DOMAIN rows : i # j => rows[i].prompt_hash # rows[j].prompt_hash

\* A save found no row, lost the race for the insert, and the table holds the
\* winner's row only.
C1_Witness ==
    \E p \in Procs :
        /\ Done(p, "attempt_save_prompt")
        /\ req[p].absent
        /\ exc[p] = "UniqueViolation"
        /\ Cardinality(RowsOfText(req[p].text)) = 1

\* C2: two successful attempt_save_prompt calls in a row, on texts equal after
\* normalization and not stored before, leave exactly one row for them, with
\* total_uses = 2.
C2_SecondSaveUpdates ==
    ( /\ started = 2
      /\ Done(1, "attempt_save_prompt")
      /\ res[1].kind = "response"
      /\ prev.kind = "response"
      /\ normalize_prompt(prev.text) = normalize_prompt(req[1].text) )
    => /\ Cardinality(RowsOfText(req[1].text)) = 1
       /\ \A i \in RowsOfText(req[1].text) : rows[i].total_uses = 2

\* The two texts differ (in case and whitespace) and both calls returned.
C2_Witness ==
    /\ started = 2
    /\ Done(1, "attempt_save_prompt")
    /\ res[1].kind = "response"
    /\ prev.kind = "response"
    /\ prev.text = <<"B">>
    /\ req[1].text = <<"b", "tab">>

AllDone == \A p \in Procs : pc[p] \in {"idle", "done"}

\* C3: when all generation requests have ended, none of them on a storage
\* error, the seeded row's total_uses is
\* its initial value plus the successful generations that referred to it, and
\* its total_fails the initial value plus the failed ones.
C3_CountersMatchOutcomes ==
    (AllDone /\ \A p \in Procs : exc[p] # "StorageError") =>
        /\ rows[1].total_uses = tally.uses0 + tally.ok
        /\ rows[1].total_fails = tally.fails0 + tally.fail

\* C4: a save that saw no row and then lost the insert to a concurrent one
\* falls back to update_prompt and returns the row; it is not a failed save.
C4_RaceLoserFallsBack ==
    \A p \in Procs :
        ( /\ Done(p, "attempt_save_prompt")
          /\ req[p].absent
          /\ exc[p] = "UniqueViolation" )
        => res[p].kind = "response"

\* C5: as long as a row exists, no step lowers its total_uses or total_fails.
C5_CountersMonotone ==
    [][\A i \in (DOMAIN rows) \cap (DOMAIN rows') :
          /\ rows'[i].total_uses >= rows[i].total_uses
          /\ rows'[i].total_fails >= rows[i].total_fails]_vars

\* A row whose two counters both grew after it was created.
C5_Witness ==
    \E i \in DOMAIN rows : rows[i].total_uses >= 2 /\ rows[i].total_fails >= 1

\* C6: normalizing a normalized text changes nothing, so the hash of the
\* normalized text is the hash of the text.
C6_NormalizeIdempotent ==
    nPc = 2 => /\ nTwice = nOut
               /\ hash_prompt(nOut) = hash_prompt(nIn)

\* C7: an update_prompt that ends while no row holds the hash of its text ends
\* on the not-found error (ValueError) and leaves the table as it was, at its
\* existence check and at its UPDATE alike.
C7_UpdateMissingIsNotFound ==
    [][\A p \in Procs :
          ( /\ pc[p] \in {"upd_exists", "upd_write"}
            /\ req[p].op = "update_prompt"
            /\ pc'[p] = "done"
            /\ ~exists_by_text(rows, req[p].text)
            /\ exc'[p] # "StorageError" )
          => /\ exc'[p] = "ValueError"
             /\ res'[p].kind = "raised"
             /\ rows' = rows]_vars

\* C8: attempt_save_prompt returns a row or null; no exception leaves it, and
\* after any exception under it the result is null.
C8_AttemptSaveNeverRaises ==
    \A p \in Procs :
        Done(p, "attempt_save_prompt") =>
            /\ res[p].kind \in {"response", "null"}
            /\ (exc[p] # "none" => res[p].kind = "null")

\* A statement under attempt_save_prompt failed after the existence check, and
\* the call returned null.
C8_Witness ==
    \E p \in Procs :
        /\ Done(p, "attempt_save_prompt")
        /\ req[p].absent
        /\ exc[p] = "StorageError"
        /\ res[p].kind = "null"

FirstSaveReturned ==
    /\ started = 1
    /\ Done(1, "attempt_save_prompt")
    /\ res[1].kind = "response"

FirstSaveRow(row) ==
    /\ row.prompt_text = req[1].text
    /\ row.prompt_hash = sha256(normalize_prompt(req[1].text))
    /\ row.total_uses = 1
    /\ row.total_fails = 0

IncrementOps ==
    {"increment_usage_by_id", "increment_failures_by_id", "increment_failures"}

\* The rows a targeted increment matches.
IncrementMatches(r) ==
    IF r.op = "increment_failures"
    THEN {i \in DOMAIN rows : rows[i].prompt_hash = sha256(normalize_prompt(r.text))}
    ELSE {i \in DOMAIN rows : i = r.id}

\* The row as the increment of `op` at time ts leaves it.
Incremented(row, op, ts) ==
    IF op = "increment_usage_by_id"
    THEN [row EXCEPT !.total_uses = row.total_uses + 1, !.last_used_at = ts]
    ELSE [row EXCEPT !.total_fails = row.total_fails + 1, !.last_used_at = ts]

\* C10: a targeted increment that matches no row returns false (it raises only
\* on a storage error) and changes no row; one that returns true has added one
\* to the targeted counter of exactly one row, the matching one, and changed no
\* other row.
C10_TargetedIncrements ==
    [][\A p \in Procs :
          ( /\ pc[p] = "exec"
            /\ pc'[p] = "done"
            /\ req[p].op \in IncrementOps )
          => /\ IncrementMatches(req[p]) = {}
                  => /\ rows' = rows
                     /\ \/ res'[p].kind = "false"
                        \/ exc'[p] = "StorageError"
             /\ res'[p].kind = "true"
                  => \E i \in IncrementMatches(req[p]) :
                        /\ IncrementMatches(req[p]) = {i}
                        /\ DOMAIN rows' = DOMAIN rows
                        /\ rows'[i] = Incremented(rows[i], req[p].op, now)
                        /\ \A j \in DOMAIN rows \ {i} : rows'[j] = rows[j]
             /\ res'[p].kind \in {"true", "false", "raised"}]_vars

\* One increment found no row and returned false, another returned true, and
\* the table holds a row neither of them touched.
C10_Witness ==
    \E p, q \in Procs :
        /\ Done(p, "increment_usage_by_id") /\ res[p].kind = "false"
        /\ Done(q, "increment_failures") /\ res[q].kind = "true"
        /\ \E i \in DOMAIN rows : rows[i].total_fails = 1

\* C11: the step that ends a generation request after a successful provider
\* call, without a storage error, has added one to total_uses of the row with
\* the given prompt_id when that row exists, or of the row of the prompt text
\* when no prompt_id was given and the text is stored; with no prompt_id and an
\* unknown text it changes nothing; and it never creates a row.
C11_UsageTrackedOnSuccess ==
    [][\A p \in Procs :
          ( /\ req[p].op = "generate_image"
            /\ pc[p] \in {"gen_usage", "upd_write"}
            /\ pc'[p] = "done"
            /\ exc'[p] # "StorageError" )
          => /\ DOMAIN rows' = DOMAIN rows
             /\ (pc[p] = "gen_usage" /\ req[p].id \in DOMAIN rows)
                   => rows'[req[p].id].total_uses = rows[req[p].id].total_uses + 1
             /\ (pc[p] = "upd_write" /\ exists_by_text(rows, req[p].text))
                   => \A i \in RowsOfText(req[p].text) :
                         rows'[i].total_uses = rows[i].total_uses + 1
             /\ (pc[p] = "gen_usage" /\ req[p].id = 0) => rows' = rows]_vars

\* C12: the step that ends a generation request whose provider call failed,
\* with no storage error in the tracking, has added one to total_fails of the
\* row with the given prompt_id when that row exists, or of the row of the
\* prompt text when no prompt_id was given and the text is stored; for a text
\* never seen it changes nothing and exists_by_text is still false.
C12_FailureTrackedOnError ==
    [][\A p \in Procs :
          ( /\ pc[p] = "gen_fail"
            /\ pc'[p] = "done"
            /\ exc[p] = "HTTPException500"
            /\ req'[p].tracking # "StorageError" )
          => /\ DOMAIN rows' = DOMAIN rows
             /\ req[p].id \in DOMAIN rows
                   => rows'[req[p].id].total_fails = rows[req[p].id].total_fails + 1
             /\ (req[p].id = 0 /\ exists_by_text(rows, req[p].text))
                   => \A i \in RowsOfText(req[p].text) :
                         rows'[i].total_fails = rows[i].total_fails + 1
             /\ (req[p].id = 0 /\ ~exists_by_text(rows, req[p].text))
                   => rows' = rows /\ ~exists_by_text(rows', req[p].text)]_vars

HTTPStatus(e) == IF e = "HTTPException400" THEN 400 ELSE 500

\* C13: a generation request that failed ends on the error it failed with and
\* that error's status, whatever its failure tracking raised; one whose provider
\* call succeeded returns the image, whatever its usage tracking raised.
C13_TrackingNeverChangesOutcome ==
    \A p \in Procs :
        Done(p, "generate_image") =>
            IF exc[p] \in {"HTTPException400", "HTTPException500"}
            THEN res[p] = Result("http_error", HTTPStatus(exc[p]))
            ELSE res[p].kind = "image"

\* One request failed at the provider and its failure tracking raised; another
\* succeeded and its usage tracking raised.
C13_Witness ==
    \E p, q \in Procs :
        /\ Done(p, "generate_image") /\ exc[p] = "HTTPException500"
        /\ req[p].tracking \in {"AttributeError", "StorageError"}
        /\ res[p] = Result("http_error", 500)
        /\ Done(q, "generate_image") /\ exc[q] = "AttributeError"
        /\ res[q].kind = "image"

\* The inputs C14 names: an empty or blank prompt, a prompt of more than 2000
\* characters, no image, a content type that is not allowed, an image of more
\* than max_file_size bytes.
InvalidInput(r) ==
    \/ \A i \in 1..Len(r.text) : IsSpace(r.text[i])
    \/ r.plen > 2000
    \/ ~r.hasImage
    \/ r.ctype = "text/plain"
    \/ r.fsize > 10485760

\* C14: a generate_image request with an invalid input never reaches the
\* provider, and it ends with status 400.
C14_ValidationBeforeVendor ==
    \A p \in Procs :
        (req[p].op = "generate_image" /\ InvalidInput(req[p])) =>
            /\ ~req[p].called
            /\ pc[p] \notin {"gen_call", "gen_usage", "upd_exists", "upd_write"}
            /\ pc[p] = "done" => res[p] = Result("http_error", 400)

\* A request whose only fault is an image one byte over the limit (no content
\* type known, prompt of 2000 characters) ended with 400.
C14_Witness ==
    /\ Done(1, "generate_image")
    /\ req[1].fsize > 10485760
    /\ req[1].ctype = "none" /\ req[1].hasImage /\ req[1].plen = 2000
    /\ res[1] = Result("http_error", 400)

\* c is the letter d in either case.
SameLetter(c, d) ==
    c = d \/ \E i \in 1..Len(UpperLetters) : UpperLetters[i] = c /\ LowerLetters[i] = d

\* s spells the name: its letters in either case, between runs of whitespace.
IsSpelling(s, name) ==
    \E a, b \in 0..Len(s) :
        /\ a + Len(name) + b = Len(s)
        /\ \A k \in 1..a : IsSpace(s[k])
        /\ \A k \in (Len(s) - b + 1)..Len(s) : IsSpace(s[k])
        /\ \A k \in 1..Len(name) : SameLetter(s[a + k], name[k])

\* The names a comma-separated list shows.
RECURSIVE SplitComma(_, _)
SplitComma(s, word) ==
    IF s = <<>> THEN <<word>>
    ELSE IF Len(s) >= 2 /\ s[1] = "," /\ s[2] = "sp"
         THEN <<word>> \o SplitComma(SubSeq(s, 3, Len(s)), <<>>)
         ELSE SplitComma(Tail(s), Append(word, Head(s)))

\* C15: create(provider) resolves every spelling of a registered name (either
\* case, surrounding whitespace) to that name's adapter class; for any other
\* name it raises the unsupported-provider error, whose list of names is the
\* list get_available_providers() returns, and constructs no adapter.
C15_FactoryResolves ==
    \A p \in Procs :
        Done(p, "factory_create") =>
            IF \E i \in 1..Len(ProviderKeys) : IsSpelling(req[p].text, ProviderKeys[i])
            THEN /\ exc[p] # "UnsupportedProvider"
                 /\ req[p].called
                 /\ res[p].kind = "adapter" =>
                       \E i \in 1..Len(ProviderKeys) :
                           /\ IsSpelling(req[p].text, ProviderKeys[i])
                           /\ res[p].val = ProviderClass(ProviderKeys[i])
            ELSE /\ exc[p] = "UnsupportedProvider"
                 /\ ~req[p].called
                 /\ res[p].val.provider = req[p].text
                 /\ SplitComma(res[p].val.available, <<>>) = get_available_providers

\* "GEMINI" and " gemini " were both resolved, to the same class.
C15_Witness ==
    \E p, q \in Procs :
        /\ Done(p, "factory_create") /\ req[p].text = <<"G", "E", "M", "I", "N", "I">>
        /\ Done(q, "factory_create") /\ req[q].text = <<"sp">> \o gemini \o <<"sp">>
        /\ res[p].kind = "adapter" /\ res[q] = res[p]

NoNativeMultiImage == {"replicate", "stability", "huggingface"}

\* The two calls met the same vendor: as many answers, the last one the same
\* (all before the last were 503).
SameVendor(p, q) ==
    req[p].calls = req[q].calls /\ req[p].status = req[q].status

\* C16: on an adapter without native multi-image support, a multi-image call
\* and a single-image call with the list's first image, the same prompt and
\* the same vendor answers end with the same result, and the multi-image call
\* has read the first image and no other.
C16_MultiEqualsFirst ==
    \A p, q \in Procs :
        ( /\ Done(p, "generate_from_multiple_images_and_text")
          /\ Done(q, "generate_from_image_and_text")
          /\ req[p].adapter \in NoNativeMultiImage
          /\ req[q].adapter = req[p].adapter
          /\ req[p].images # <<>>
          /\ req[q].arg = req[p].images[1]
          /\ req[q].text = req[p].text
          /\ SameVendor(p, q) )
        => /\ res[p] = res[q]
           /\ req[p].reads = {req[p].images[1]}
           /\ req[p].reads = req[q].reads

\* [imgA, imgB, imgC] on Replicate against imgA alone, both answered with 200.
C16_Witness ==
    \E p, q \in Procs :
        /\ Done(p, "generate_from_multiple_images_and_text")
        /\ Done(q, "generate_from_image_and_text")
        /\ req[p].adapter = "replicate" /\ req[q].adapter = "replicate"
        /\ req[p].images = <<"imgA", "imgB", "imgC">>
        /\ req[q].arg = "imgA"
        /\ req[q].text = req[p].text
        /\ req[p].status = 200 /\ req[q].status = 200
        /\ res[p] = res[q]

\* C17: a HuggingFace generate_from_text or generate_from_image_and_text makes
\* at most two requests to the vendor, and after a second 503 it has ended with
\* an error.
C17_RetriesOnce ==
    \A p \in Procs :
        ( /\ req[p].adapter = "huggingface"
          /\ req[p].op \in {"generate_from_text", "generate_from_image_and_text"} )
        => /\ req[p].calls <= 2
           /\ (req[p].calls = 2 /\ req[p].status = 503)
                 => pc[p] = "done" /\ res[p].kind = "http_error"

\* C18: every row that get_recent, get_popular, get_most_failed or search
\* returns has a thumbnail at the time of the query.
C18_QueriesReturnThumbnailedOnly ==
    [][\A p \in Procs :
          ( /\ pc[p] = "query"
            /\ pc'[p] = "done"
            /\ res'[p].kind = "rows" )
          => \A i \in res'[p].val : rows[i].thumbnail_data # NULL]_vars

\* The time since the row was last used.
Age(row) == now - row.last_used_at

\* C19: cleanup_old(days) removes exactly the rows without thumbnail that were
\* last used more than `days` ago, leaves every other row as it was (a row used
\* exactly `days` ago, a row with a thumbnail of any age), and returns the
\* number of rows it removed.
C19_CleanupExactlyOld ==
    [][\A p \in Procs :
          ( /\ pc[p] = "exec"
            /\ req[p].op = "cleanup_old"
            /\ pc'[p] = "done"
            /\ exc'[p] = "none" )
          => LET old == {i \in DOMAIN rows : /\ rows[i].thumbnail_data = NULL
                                             /\ Age(rows[i]) > req[p].days}
             IN  /\ DOMAIN rows' = DOMAIN rows \ old
                 /\ \A i \in DOMAIN rows' : rows'[i] = rows[i]
                 /\ res'[p] = Result("count", Cardinality(old))]_vars

\* A cleanup removed a row and kept an older-than-`days` row with a thumbnail.
C19_Witness ==
    \E p \in Procs :
        /\ Done(p, "cleanup_old")
        /\ res[p] = Result("count", 1)
        /\ \E i \in DOMAIN rows : /\ rows[i].thumbnail_data # NULL
                                  /\ Age(rows[i]) > req[p].days

\* C20: in every row the four thumbnail fields are all populated or all null.
C20_ThumbnailAllOrNothing ==
    \A i \in DOMAIN rows :
        \/ ThumbnailFields(rows[i]) = {NULL}
        \/ NULL \notin ThumbnailFields(rows[i])

\* A row created by a save from bytes no thumbnail could be made of, then
\* updated by the other save.
C20_Witness ==
    \E p, q \in Procs :
        /\ Done(p, "attempt_save_prompt") /\ req[p].image = "BadImage"
        /\ res[p].kind = "response"
        /\ res[p].val \in DOMAIN rows
        /\ ThumbnailFields(rows[res[p].val]) = {NULL}
        /\ rows[res[p].val].total_uses = 2
        /\ Done(q, "attempt_save_prompt") /\ q # p

\* The rows a step has inserted.
NewRows == {i \in DOMAIN rows' : i \notin DOMAIN rows}

\* C21: a successful inspire call for a text the ledger does not hold creates
\* the record of that text with total_uses 0 and answers with that record's
\* id as saved; a first explicit save creates the record with total_uses 1.
C21_InspireCreatesWithZeroUses ==
    [][\A p \in Procs :
          /\ (/\ pc[p] = "inspire"
              /\ res'[p].kind = "inspired"
              /\ ~exists_by_text(rows, req[p].text))
                 => \E i \in NewRows :
                       /\ NewRows = {i}
                       /\ rows'[i].prompt_text = req[p].text
                       /\ rows'[i].total_uses = 0
                       /\ res'[p].val = i
          /\ (/\ pc[p] = "create"
              /\ req[p].op = "attempt_save_prompt"
              /\ res'[p].kind = "response")
                 => \E i \in NewRows :
                       /\ NewRows = {i}
                       /\ rows'[i].prompt_text = req[p].text
                       /\ rows'[i].total_uses = 1
                       /\ res'[p].val = i]_vars

\* Two failed requests that differ in the raw error text alone.
SameButErrorText(p, q) ==
    /\ pc[p] = "done" /\ pc[q] = "done"
    /\ res[p].kind = "http_error" /\ res[q].kind = "http_error"
    /\ req[p].op = "generate_image" /\ req[q].op = "generate_image"
    /\ [req[p] EXCEPT !.text = req[q].text] = req[q]

\* C22: the message of a generic generation failure does not depend on the
\* raw error text: two failed requests that differ in that text alone end on
\* the same message.
C22_MessageIndependentOfVendorText ==
    \A p, q \in Procs :
        SameButErrorText(p, q) => res[p].val.detail = res[q].val.detail

\* C23: a request the vendor blocked on content-policy grounds ends, in
\* generate_from_text as in generate_from_image_and_text, on a client error
\* 400 whose message holds the vendor's block reason and safety categories.
C23_ContentPolicyBlockKept ==
    \A p \in Procs :
        (/\ pc[p] = "done"
         /\ req[p].op \in {"generate_from_image_and_text", "generate_from_text"}
         /\ req[p].adapter = "gemini"
         /\ req[p].arg.block_reason # NULL)
            => /\ res[p].kind = "http_error"
               /\ res[p].val.status = "400"
               /\ \A w \in {req[p].arg.block_reason}
                          \cup {req[p].arg.safety_ratings[i] :
                                   i \in DOMAIN req[p].arg.safety_ratings} :
                      \E k \in DOMAIN res[p].val.detail : res[p].val.detail[k] = w

\* C24: in every state of the ledger, the prompt_text of every record has
\* between 1 and 2000 characters.
C24_PromptTextLength ==
    \A i \in DOMAIN rows :
        /\ py_len(rows[i].prompt_text) >= 1
        /\ py_len(rows[i].prompt_text) <= MaxPromptChars

\* C25: an answer of the vendor other than success and "model loading" ends
\* the adapter's operation: the adapter does not call the vendor again.
C25_OtherFailuresPropagate ==
    [][\A p \in Procs :
          (/\ pc[p] = "vendor"
           /\ req'[p].calls = req[p].calls + 1
           /\ req'[p].status \notin {200, 503})
              => pc'[p] = "done"]_vars

\* C26: process_reference_image and generate_from_image_and_text read the
\* whole upload whatever the position of its stream on entry, and leave the
\* stream at position 0.
C26_WholeImageReadAndRewound ==
    \A p \in Procs :
        /\ (req[p].op = "generate_image_from_prompt" /\ pc[p] \in {"svc_generate", "done"})
              => /\ req[p].url = <<"data:">> \o req[p].file.content
                 /\ req[p].file.pos = 0
        /\ (pc[p] = "done" /\ req[p].called /\ req[p].file.content # <<>>)
              => /\ req[p].seen = req[p].file.content
                 /\ req[p].file.pos = 0

\* C28: for every provider, when the adapter's operation succeeds,
\* generate_image_from_prompt returns the adapter's image and content type
\* with the data URL of the reference image, whether the adapter's operation
\* is synchronous or asynchronous.
C28_SuccessForEveryProvider ==
    \A p \in Procs :
        (/\ pc[p] = "done"
         /\ req[p].op = "generate_image_from_prompt"
         /\ req[p].status = 200)
            => /\ res[p].kind = "image"
               /\ res[p].val.image_data = req[p].adapter
               /\ res[p].val.reference_image_url = req[p].url

\* The fields no usage or failure tracking writes.
FrameFields ==
    {"prompt_text", "prompt_hash", "model", "first_used_at", "thumbnail_data",
     "thumbnail_mime", "thumbnail_width", "thumbnail_height"}

\* The row i is tracked by the step: one counter grows by one, last_used_at
\* is the time of the step, and nothing else of the row changes.
Tracked(i, counter, other) ==
    /\ rows'[i][counter] = rows[i][counter] + 1
    /\ rows'[i][other] = rows[i][other]
    /\ rows'[i].last_used_at = now
    /\ \A f \in FrameFields : rows'[i][f] = rows[i][f]

\* C27: a step of update_prompt or of a targeted increment that changes the
\* table changes one record, the one it targets: the targeted counter grows
\* by one, last_used_at is set, and its text, hash, model, first_used_at,
\* thumbnail fields and other counter stay, as does every other record. No
\* step changes the first_used_at of a record.
C27_TrackingFrame ==
    [][/\ \A p \in Procs :
            ( /\ pc'[p] # pc[p]
              /\ \/ pc[p] = "exec" /\ req[p].op \in IncrementOps
                 \/ pc[p] = "upd_write"
              /\ rows' # rows )
            => /\ DOMAIN rows' = DOMAIN rows
               /\ \E i \in DOMAIN rows :
                     /\ \A j \in DOMAIN rows \ {i} : rows'[j] = rows[j]
                     /\ IF pc[p] = "upd_write"
                        THEN /\ rows[i].prompt_hash = PostInitHash(req[p].text)
                             /\ Tracked(i, "total_uses", "total_fails")
                        ELSE /\ i \in IncrementMatches(req[p])
                             /\ IF req[p].op = "increment_usage_by_id"
                                THEN Tracked(i, "total_uses", "total_fails")
                                ELSE Tracked(i, "total_fails", "total_uses")
       /\ \A i \in (DOMAIN rows) \cap (DOMAIN rows') :
             rows'[i].first_used_at = rows[i].first_used_at]_vars

\* A failure was tracked on one record after the clock moved on, and the table
\* holds another record.
C27_Witness ==
    \E p \in Procs, i, j \in DOMAIN rows :
        /\ pc[p] = "done" /\ req[p].op \in {"increment_failures_by_id", "increment_failures"}
        /\ res[p].kind = "true"
        /\ i # j
        /\ rows[i].total_fails = 1
        /\ rows[i].last_used_at > rows[i].first_used_at

\* C29: a generate_image request with a valid prompt, an image of an allowed
\* content type and a size within the limit passes validation: it is not
\* rejected with 400, and it reaches the provider call.
C29_AllowedTypePasses ==
    \A p \in Procs :
        (/\ req[p].op = "generate_image"
         /\ ~InvalidInput(req[p])
         /\ req[p].ctype = "image/png"
         /\ pc[p] \notin {"idle", "gen_validate"})
            => /\ exc[p] # "HTTPException400"
               /\ pc[p] = "gen_call" \/ req[p].called

\* A step of the generate_image request in slot p.
GenerateStep(p) == req[p].op = "generate_image" /\ pc'[p] # pc[p]

====
